---- MODULE Spec2Model ----
(***************************************************************************)
(* Lead intake backend (src/main.py): the `leads` table, the public        *)
(* create_lead handler, the authenticated admin handlers and the dummy     *)
(* e-mail sender.                                                          *)
(*                                                                         *)
(* Strings that the code inspects character by character (e-mail           *)
(* addresses, file names) are sequences of one-character strings, so that  *)
(* str.lower() and str.endswith() are computed rather than assumed.        *)
(* Strings that are only compared or stored are TLA+ strings.              *)
(*                                                                         *)
(* The two `async def` handlers (create_lead, update_resume) are split at  *)
(* their `await resume.read()`: other requests run while they are          *)
(* suspended there.  The `def` handlers have no suspension point and are   *)
(* one step each.                                                          *)
(***************************************************************************)
EXTENDS Naturals, Sequences, FiniteSets, Bags

VARIABLES
    leads,     \* the rows of table "leads" (a set of records)
    tasks,     \* bag of handler invocations suspended at `await resume.read()`
    outbox,    \* what send_email has printed so far, in order
    last       \* the HTTP response the latest step sent, if it sent one

vars == <<leads, tasks, outbox, last>>

---------------------------------------------------------------------------
(* Bounds of the model *)

\* at most this many handler invocations are suspended at an await at once
MaxTasks == 2

---------------------------------------------------------------------------
(* Strings *)

UpperCase ==
    <<"A","B","C","D","E","F","G","H","I","J","K","L","M",
      "N","O","P","Q","R","S","T","U","V","W","X","Y","Z">>

LowerCase ==
    <<"a","b","c","d","e","f","g","h","i","j","k","l","m",
      "n","o","p","q","r","s","t","u","v","w","x","y","z">>

\* the characters strings are made of
Characters ==
    { UpperCase[i] : i \in DOMAIN UpperCase } \cup
    { LowerCase[i] : i \in DOMAIN LowerCase } \cup
    { "0","1","2","3","4","5","6","7","8","9", ".", "@", "-", "_", "+", " " }

\* str.lower(), character by character: an upper-case letter maps to its
\* lower-case letter, every other character to itself
LowerTable ==
    [c \in Characters |->
        IF \E i \in DOMAIN UpperCase : UpperCase[i] = c
        THEN LowerCase[CHOOSE i \in DOMAIN UpperCase : UpperCase[i] = c]
        ELSE c]

LowerChar(c) == LowerTable[c]

\* str.lower()
Lower(s) == [i \in 1..Len(s) |-> LowerChar(s[i])]

\* str.endswith(suffix)
EndsWith(s, suffix) ==
    /\ Len(s) >= Len(suffix)
    /\ SubSeq(s, Len(s) - Len(suffix) + 1, Len(s)) = suffix

---------------------------------------------------------------------------
(* Configuration, src/main.py lines 14-15 *)

ATTORNEY_EMAIL ==
    <<"a","t","t","o","r","n","e","y","@","y","o","u","r","f","i","r","m",
      ".","c","o","m">>

INTERNAL_API_KEY == "SECRET_INTERNAL_KEY"

\* enum LeadState
PENDING == "PENDING"
REACHED_OUT == "REACHED_OUT"
LeadState == {PENDING, REACHED_OUT}

---------------------------------------------------------------------------
(* Inputs the requests are drawn from *)

EmailLowerA == <<"a","@","x",".","i","o">>
EmailUpperA == <<"A","@","x",".","i","o">>

\* the form fields (first_name, last_name, email) of POST /leads: two
\* applicants whose addresses differ in case only
Forms ==
    { [first_name |-> "Jane", last_name |-> "Doe", email |-> EmailUpperA],
      [first_name |-> "John", last_name |-> "Roe", email |-> EmailLowerA] }

\* an UploadFile: its filename and the bytes resume.read() yields.
\* The files submitted to POST /leads
UploadFiles ==
    { [filename |-> <<"c","v",".","p","d","f">>, data |-> "bytes-1"],
      [filename |-> <<"c","v",".","P","d","f">>, data |-> "bytes-2"],
      [filename |-> <<"c","v",".","t","x","t">>, data |-> "bytes-3"] }

\* the files sent to PUT /leads/{lead_id}/resume: a new name, and a name an
\* intake file has too
ReplacementFiles ==
    { [filename |-> <<"c","v","2",".","p","d","f">>, data |-> "bytes-4"],
      [filename |-> <<"c","v",".","p","d","f">>, data |-> "bytes-5"] }

\* Optional[str]: None is the empty set, a present header a singleton
None == {}
Some(v) == {v}
ApiKeys == { None, Some(INTERNAL_API_KEY), Some("guess") }

---------------------------------------------------------------------------
(* Identity *)

\* hashlib.md5(val).hexdigest() formatted by uuid.UUID: the digests of the
\* strings the model submits, as md5 computes them
Md5Uuid(val) ==
    CASE val = EmailLowerA -> "a43c5640-5619-0dca-51f9-f4a6fae36c30"
      [] val = EmailUpperA -> "e894711f-bb66-8658-b9f3-7baaa5bf9beb"

create_uuid_from_string(val) == Md5Uuid(val)

\* the path parameter lead_id of the admin routes
LeadIds ==
    { create_uuid_from_string(EmailLowerA),
      "00000000-0000-0000-0000-000000000000" }

---------------------------------------------------------------------------
(* The table and the ORM session *)

\* the mapped columns of class Lead
Columns ==
    { "id", "first_name", "last_name", "email",
      "resume_filename", "resume_data", "state" }

\* the id column without its primary key: every INSERT is accepted
PrimaryKeyMissing(table, row) == TRUE

\* id = Column(String, primary_key=True): an INSERT of a row whose id is
\* already in the table is rejected (IntegrityError)
PrimaryKeyAccepts(table, row) == \A r \in table : r.id /= row.id

\* a filter that matches no row
QueryFirstNoMatch(table, lead_id) == None

\* db.query(Lead).filter(Lead.id == lead_id).first(): None or the row
QueryFirst(table, lead_id) ==
    LET matching == { r \in table : r.id = lead_id }
    IN  IF matching = {} THEN None
        ELSE Some(CHOOSE r \in matching : TRUE)

\* The session's unit of work: an attribute assigned on a loaded object is
\* pending only when its value differs from the loaded one (an assignment
\* of the value already loaded leaves no net change)
NetChanges(lead, assigned) ==
    [a \in { a \in DOMAIN assigned :
                 a \notin DOMAIN lead \/ assigned[a] /= lead[a] }
        |-> assigned[a]]

\* db.commit() of a loaded object with pending attributes:
\* UPDATE leads SET <the pending mapped columns> WHERE id = lead_id.
\* A pending attribute that is not a mapped column is not written.
Flush(table, lead_id, pending) ==
    { IF r.id = lead_id
      THEN [c \in DOMAIN r |->
               IF c \in DOMAIN pending /\ c \in Columns
               THEN pending[c] ELSE r[c]]
      ELSE r : r \in table }

\* the row constructed by create_lead
NewLead(lead_id, first_name, last_name, email, filename, file_data) ==
    [ id              |-> lead_id,
      first_name      |-> first_name,
      last_name       |-> last_name,
      email           |-> Lower(email),
      resume_filename |-> filename,
      resume_data     |-> file_data,
      state           |-> PENDING ]

\* LeadOut.from_orm(lead): every column but resume_data
LeadOut(row) ==
    [ id              |-> row.id,
      first_name      |-> row.first_name,
      last_name       |-> row.last_name,
      email           |-> row.email,
      resume_filename |-> row.resume_filename,
      state           |-> row.state ]

\* the id strings of the model in ascending string order
IdsAscending ==
    << "00000000-0000-0000-0000-000000000000",
       "a43c5640-5619-0dca-51f9-f4a6fae36c30",
       "e894711f-bb66-8658-b9f3-7baaa5bf9beb" >>

IdRank(id) == CHOOSE i \in DOMAIN IdsAscending : IdsAscending[i] = id

\* db.query(Lead).order_by(Lead.id.desc()).all()
RECURSIVE OrderByIdDesc(_)
OrderByIdDesc(rows) ==
    IF rows = {} THEN << >>
    ELSE LET top == CHOOSE r \in rows :
                        \A q \in rows : IdRank(q.id) <= IdRank(r.id)
         IN  <<top>> \o OrderByIdDesc(rows \ {top})

---------------------------------------------------------------------------
(* Responses *)

FileErrorText == "file error: only pdf file of resume is allowed."
DuplicateText == "you have already applied. you can update your resume"

TextBody(s)  == [kind |-> "text", text |-> s]
LeadBody(r)  == [kind |-> "lead", lead |-> LeadOut(r)]
ListBody(rs) == [kind |-> "list", leads |-> rs]
FileBody(r)  == [kind |-> "file", content |-> r.resume_data,
                 filename |-> r.resume_filename]
ErrorBody(d) == [kind |-> "error", detail |-> d]

\* a response: the HTTP status, the body, and whether the request queried
\* the table on its way
Response(status, body, queried) ==
    [status |-> status, body |-> body, queried |-> queried]

Ok(body)     == Response(200, body, TRUE)
Rejected     == Response(200, TextBody(FileErrorText), FALSE)
Unauthorized == Response(401, ErrorBody("Unauthorized"), FALSE)
NotFound     == Response(404, ErrorBody("Lead not found"), TRUE)
\* an exception no handler catches
ServerError  == Response(500, ErrorBody("Internal Server Error"), TRUE)
\* the step sent no response (the handler is suspended)
NoResponse   == Response(0, [kind |-> "none"], FALSE)

---------------------------------------------------------------------------
(* Dependencies and helpers of the handlers *)

\* a check that lets a request without the header through
get_api_key_if_present(api_key) ==
    api_key = None \/ api_key = Some(INTERNAL_API_KEY)

\* get_api_key: passes (TRUE) or raises HTTPException(401) (FALSE)
get_api_key(api_key) == api_key = Some(INTERNAL_API_KEY)

\* the extension check without .lower()
IsPdfCaseSensitive(filename) == EndsWith(filename, <<".","p","d","f">>)

\* resume.filename.lower().endswith(".pdf")
IsPdf(filename) == EndsWith(Lower(filename), <<".","p","d","f">>)

\* the address used as submitted
NormalizeEmailKeepsCase(email) == email

\* email = email.lower()
NormalizeEmail(email) == Lower(email)

\* the two messages create_lead sends
ThankYou(first_name, email) ==
    [to |-> email, subject |-> "Thank you for your submission!",
     body |-> <<first_name>>]

NewLeadAlert(first_name, last_name, email) ==
    [to |-> ATTORNEY_EMAIL, subject |-> "New Lead Submitted",
     body |-> <<first_name, last_name, email>>]

\* send_email prints and catches nothing: a call returns or, when the write
\* to stdout fails, raises, and a raise ends the handler.  Which of the two
\* calls of a create_lead raises: neither (0), the first (1), the second (2)
RaisingSend == {0, 1, 2}

---------------------------------------------------------------------------
(* State *)

Init ==
    /\ leads = {}
    /\ tasks = EmptyBag
    /\ outbox = << >>
    /\ last = NoResponse

Suspended == BagToSet(tasks)

\* the handler reaches `await resume.read()`
Suspend(task) ==
    /\ BagCardinality(tasks) < MaxTasks
    /\ tasks' = tasks (+) SetToBag({task})
    /\ last' = NoResponse

\* `await resume.read()` returns
Wake(task) == tasks' = tasks (-) SetToBag({task})

---------------------------------------------------------------------------
(* POST /leads *)

\* create_lead up to `await resume.read()`
create_lead(form, resume) ==
    IF ~IsPdf(resume.filename)
    THEN /\ last' = Rejected
         /\ UNCHANGED <<leads, tasks, outbox>>
    ELSE LET email   == NormalizeEmail(form.email)
             lead_id == create_uuid_from_string(email)
         IN  IF QueryFirst(leads, lead_id) /= None
             THEN /\ last' = Ok(TextBody(DuplicateText))
                  /\ UNCHANGED <<leads, tasks, outbox>>
             ELSE /\ Suspend([handler    |-> "create_lead",
                              first_name |-> form.first_name,
                              last_name  |-> form.last_name,
                              email      |-> email,
                              lead_id    |-> lead_id,
                              resume     |-> resume])
                  /\ UNCHANGED <<leads, outbox>>

\* create_lead from the return of `await resume.read()` to its end
create_lead_resumed(task, raising) ==
    /\ task.handler = "create_lead"
    /\ Wake(task)
    /\ LET file_data == task.resume.data
           lead == NewLead(task.lead_id, task.first_name, task.last_name,
                           task.email, task.resume.filename, file_data)
       IN  IF ~PrimaryKeyAccepts(leads, lead)
           THEN \* db.commit() raises IntegrityError; nothing catches it
                /\ last' = ServerError
                /\ UNCHANGED <<leads, outbox>>
           ELSE /\ leads' = leads \cup {lead}
                /\ outbox' =
                     LET first  == ThankYou(task.first_name, task.email)
                         second == NewLeadAlert(task.first_name,
                                                task.last_name, task.email)
                     IN  IF raising = 1 THEN outbox
                         ELSE IF raising = 2 THEN Append(outbox, first)
                         ELSE outbox \o <<first, second>>
                /\ last' =
                     IF raising /= 0 THEN ServerError
                     ELSE Ok(LeadBody(lead))

---------------------------------------------------------------------------
(* The admin handlers *)

\* Depends(get_api_key) raised: the handler is not called
Reject ==
    /\ last' = Unauthorized
    /\ UNCHANGED <<leads, tasks, outbox>>

\* GET /leads
get_leads ==
    /\ last' = Ok(ListBody([i \in 1..Cardinality(leads) |->
                               LeadOut(OrderByIdDesc(leads)[i])]))
    /\ UNCHANGED <<leads, tasks, outbox>>

\* GET /leads/{lead_id}
get_lead(lead_id) ==
    /\ last' = LET found == QueryFirst(leads, lead_id)
               IN  IF found = None THEN NotFound
                   ELSE Ok(LeadBody(CHOOSE r \in found : TRUE))
    /\ UNCHANGED <<leads, tasks, outbox>>

\* GET /leads/{lead_id}/resume
download_resume(lead_id) ==
    /\ last' = LET found == QueryFirst(leads, lead_id)
               IN  IF found = None THEN NotFound
                   ELSE Ok(FileBody(CHOOSE r \in found : TRUE))
    /\ UNCHANGED <<leads, tasks, outbox>>

\* PUT /leads/{lead_id}/resume up to `await resume.read()`
update_resume(lead_id, resume) ==
    LET found == QueryFirst(leads, lead_id)
    IN  IF found = None
        THEN /\ last' = NotFound
             /\ UNCHANGED <<leads, tasks, outbox>>
        ELSE LET lead == CHOOSE r \in found : TRUE
             IN  /\ Suspend([handler |-> "update_resume",
                             lead_id |-> lead_id,
                             pending |->
                               NetChanges(lead,
                                 [state |-> PENDING,
                                  resume_filename |-> resume.filename]),
                             resume  |-> resume])
                 /\ UNCHANGED <<leads, outbox>>

\* update_resume from the return of `await resume.read()` to its end;
\* line 165 assigns the attribute `resume_date`
update_resume_resumed(task) ==
    /\ task.handler = "update_resume"
    /\ Wake(task)
    /\ LET file_data == task.resume.data
           pending == [a \in DOMAIN task.pending \cup {"resume_date"} |->
                          IF a = "resume_date" THEN file_data
                          ELSE task.pending[a]]
       IN  /\ leads' = Flush(leads, task.lead_id, pending)
           /\ last' = Ok(LeadBody(CHOOSE r \in leads' : r.id = task.lead_id))
    /\ UNCHANGED outbox

\* a handler that refuses to move a lead back from REACHED_OUT to PENDING
update_lead_state_forward_only(lead_id, state) ==
    LET found == QueryFirst(leads, lead_id)
    IN  IF found = None
        THEN /\ last' = NotFound
             /\ UNCHANGED <<leads, tasks, outbox>>
        ELSE LET lead == CHOOSE r \in found : TRUE
                 next == IF lead.state = REACHED_OUT THEN REACHED_OUT ELSE state
             IN  /\ leads' = Flush(leads, lead_id,
                                   NetChanges(lead, [state |-> next]))
                 /\ last' = Ok(LeadBody(CHOOSE r \in leads' : r.id = lead_id))
                 /\ UNCHANGED <<tasks, outbox>>

\* PUT /leads/{lead_id}/state
update_lead_state(lead_id, state) ==
    LET found == QueryFirst(leads, lead_id)
    IN  IF found = None
        THEN /\ last' = NotFound
             /\ UNCHANGED <<leads, tasks, outbox>>
        ELSE LET lead == CHOOSE r \in found : TRUE
             IN  /\ leads' = Flush(leads, lead_id,
                                   NetChanges(lead, [state |-> state]))
                 /\ last' = Ok(LeadBody(CHOOSE r \in leads' : r.id = lead_id))
                 /\ UNCHANGED <<tasks, outbox>>

---------------------------------------------------------------------------
(* Specification: the routes *)

\* @app.post("/leads")
CreateLead ==
    \E form \in Forms, resume \in UploadFiles : create_lead(form, resume)

CreateLeadResumed ==
    \E task \in Suspended, raising \in RaisingSend :
        create_lead_resumed(task, raising)

\* @app.get("/leads", dependencies=[Depends(get_api_key)])
GetLeads(api_key) ==
    IF get_api_key(api_key) THEN get_leads ELSE Reject

\* @app.get("/leads/{lead_id}", dependencies=[Depends(get_api_key)])
GetLead(api_key) ==
    IF get_api_key(api_key)
    THEN \E lead_id \in LeadIds : get_lead(lead_id)
    ELSE Reject

\* @app.get("/leads/{lead_id}/resume", dependencies=[Depends(get_api_key)])
DownloadResume(api_key) ==
    IF get_api_key(api_key)
    THEN \E lead_id \in LeadIds : download_resume(lead_id)
    ELSE Reject

\* @app.put("/leads/{lead_id}/resume", dependencies=[Depends(get_api_key)])
UpdateResume(api_key) ==
    IF get_api_key(api_key)
    THEN \E lead_id \in LeadIds, resume \in ReplacementFiles :
             update_resume(lead_id, resume)
    ELSE Reject

UpdateResumeResumed == \E task \in Suspended : update_resume_resumed(task)

\* @app.put("/leads/{lead_id}/state", dependencies=[Depends(get_api_key)])
UpdateLeadState(api_key) ==
    IF get_api_key(api_key)
    THEN \E lead_id \in LeadIds, state \in LeadState :
             update_lead_state(lead_id, state)
    ELSE Reject

\* a request to one of the five admin routes carrying header value api_key
AdminRequest(api_key) ==
    \/ GetLeads(api_key)
    \/ GetLead(api_key)
    \/ DownloadResume(api_key)
    \/ UpdateResume(api_key)
    \/ UpdateLeadState(api_key)

Next ==
    \/ CreateLead
    \/ CreateLeadResumed
    \/ UpdateResumeResumed
    \/ \E api_key \in ApiKeys : AdminRequest(api_key)

Spec == Init /\ [][Next]_vars

---------------------------------------------------------------------------
(* Properties *)

\* the id the data model prescribes for an address: the digest of the
\* lowercased address
DerivedId(email) == Md5Uuid(Lower(email))

\* the (at most one) row of the table with this id, as a set
RowsOf(table, lead_id) == { r \in table : r.id = lead_id }

\* the row create_lead builds for a suspended invocation
LeadOfTask(task) ==
    NewLead(task.lead_id, task.first_name, task.last_name, task.email,
            task.resume.filename, task.resume.data)

\* a file name ends in ".pdf" in some mix of cases
PdfSuffixes ==
    { <<".", p, d, f>> : p \in {"p","P"}, d \in {"d","D"}, f \in {"f","F"} }

EndsInPdfAnyCase(filename) == \E suffix \in PdfSuffixes : EndsWith(filename, suffix)

FilenameSamples ==
    { << >>, <<"p","d","f">>, <<".","p","d","f">>, <<".","P","D","F">>,
      <<"c","v",".","p","d","f">>, <<"c","v",".","P","D","F">>,
      <<"c","v",".","P","d","f">>, <<"c","v",".","p","D","f">>,
      <<"c","v",".","t","x","t">>, <<"c","v",".","p","d","f",".","t","x","t">>,
      <<"c","v","p","d","f">>, <<"c","v",".","p","d">>,
      <<"c","v",".","p","d","f","x">> }

(* C1: when update_resume completes for an existing lead, the stored row    *)
(* holds the uploaded file's name and the uploaded file's bytes (so that a  *)
(* following download_resume returns them).                                 *)
C1_ReplaceResumeStoresUpload ==
    [][ \A task \in Suspended :
          update_resume_resumed(task) =>
            \A r \in RowsOf(leads', task.lead_id) :
              /\ r.resume_filename = task.resume.filename
              /\ r.resume_data = task.resume.data
              /\ FileBody(r) = [kind     |-> "file",
                                content  |-> task.resume.data,
                                filename |-> task.resume.filename]
      ]_vars

(* C2: a create_lead whose INSERT the table rejects, because another        *)
(* create_lead for the same id committed while it was suspended at the file *)
(* read, answers with the soft "already applied" text.                      *)
C2_RejectedInsertAnswersAlreadyApplied ==
    [][ \A task \in Suspended, raising \in RaisingSend :
          ( /\ create_lead_resumed(task, raising)
            /\ RowsOf(leads, task.lead_id) /= {} )
          => last' = Ok(TextBody(DuplicateText))
      ]_vars

\* the uploads whose file name ends in ".pdf" in some mix of cases
PdfUploads == { u \in UploadFiles : EndsInPdfAnyCase(u.filename) }

\* what the responses of create_lead's first part have in common: no
\* response yet, or a text
TextOrNone(response) == response.body.kind \in {"none", "text"}

(* C3: a create_lead with a pdf file name, called when a lead whose e-mail  *)
(* equals the lowercased submitted address exists, derives that lead's id,  *)
(* answers "already applied", changes no row, adds no row, starts nothing   *)
(* and sends no e-mail.                                                     *)
C3_SecondSubmitIsDuplicate ==
    [][ \A form \in Forms, resume \in PdfUploads :
          ( /\ TextOrNone(last')
            /\ \E r \in leads : r.email = Lower(form.email)
            /\ create_lead(form, resume) )
          => /\ \E r \in leads :
                  /\ r.email = Lower(form.email)
                  /\ r.id = create_uuid_from_string(NormalizeEmail(form.email))
             /\ last' = Ok(TextBody(DuplicateText))
             /\ leads' = leads
             /\ tasks' = tasks
             /\ outbox' = outbox
      ]_vars

C3_Witness ==
    /\ last = Ok(TextBody(DuplicateText))
    /\ Cardinality(leads) = 1
    /\ tasks = EmptyBag

(* C4: after every step the table holds at most one row per id, and no step *)
(* of create_lead changes or removes a row that is already in the table.    *)
C4_OneRowPerIdAndWinnerKept ==
    [][ /\ \A r1, r2 \in leads' : r1.id = r2.id => r1 = r2
        /\ (\E r \in leads : r \notin leads') => ~(CreateLead \/ CreateLeadResumed)
      ]_vars

\* two create_lead were suspended together: one inserted and sent both
\* e-mails, the other's INSERT was then rejected
C4_Witness ==
    /\ last = ServerError
    /\ Cardinality(leads) = 1
    /\ Len(outbox) = 2

(* C5: when the first or the second send_email of a create_lead raises      *)
(* after the row was inserted, the row stays in the table and the response  *)
(* is still the created lead.                                               *)
C5_NotificationFailureKeepsSuccess ==
    [][ \A task \in Suspended, raising \in RaisingSend :
          ( /\ create_lead_resumed(task, raising)
            /\ RowsOf(leads, task.lead_id) = {}
            /\ raising /= 0 )
          => /\ LeadOfTask(task) \in leads'
             /\ last' = Ok(LeadBody(LeadOfTask(task)))
      ]_vars

(* C6: when update_resume completes for an existing lead the lead's state   *)
(* is PENDING, whatever it was before; a row create_lead inserts is         *)
(* PENDING.                                                                 *)
C6_ReplaceResumeResetsState ==
    [][ /\ \A task \in Suspended :
             update_resume_resumed(task) =>
               /\ \A r \in RowsOf(leads', task.lead_id) : r.state = PENDING
               /\ last'.body.lead.state = PENDING
        /\ \A r \in leads' : RowsOf(leads, r.id) = {} => r.state = PENDING
      ]_vars

(* C7: a request to any admin route whose X-API-Key header is missing or    *)
(* differs from the shared secret is answered 401 Unauthorized without a    *)
(* query of the table, without lead data in the body, and changes neither   *)
(* the table, the suspended handlers nor the e-mails sent.                  *)
C7_BadKeyIsUnauthorized ==
    [][ \A api_key \in ApiKeys :
          ( /\ api_key /= Some(INTERNAL_API_KEY)
            /\ AdminRequest(api_key) )
          => /\ last'.status = 401
             /\ last'.body = ErrorBody("Unauthorized")
             /\ ~last'.queried
             /\ UNCHANGED <<leads, tasks, outbox>>
      ]_vars

C7_Witness ==
    /\ last = Unauthorized
    /\ leads /= {}

\* the handler's extension check decides the sample names as the rule does
IsPdfAgreesOnSamples ==
    \A filename \in FilenameSamples :
        IsPdf(filename) <=> EndsInPdfAnyCase(filename)

(* C8: a create_lead whose file name does not end in ".pdf" in any mix of   *)
(* cases answers the file-type text without a query, inserts and changes no *)
(* row and sends no e-mail; a file name that does end so is not answered    *)
(* with the file-type text.                                                 *)
C8_NonPdfRejectedBeforeStore ==
    [][ /\ \A form \in Forms, resume \in UploadFiles \ PdfUploads :
             ( TextOrNone(last') /\ create_lead(form, resume) )
             => /\ last' = Rejected
                /\ ~last'.queried
                /\ UNCHANGED <<leads, tasks, outbox>>
        /\ \A form \in Forms, resume \in PdfUploads :
             last' = Rejected => ~create_lead(form, resume)
        /\ IsPdfAgreesOnSamples
      ]_vars

\* a mixed-case ".Pdf" upload was accepted at intake and a ".txt" one has
\* just been turned away
C8_Witness ==
    /\ last = Rejected
    /\ \E r \in leads : r.resume_data = "bytes-2"

(* C9: a row, once in the table, is never removed and keeps its id and      *)
(* e-mail; a row create_lead adds has the lowercased submitted address as   *)
(* e-mail and the id derived from it; get_lead of an existing id answers    *)
(* that row, with that id.                                                  *)
C9_LeadPersistsWithIdentity ==
    [][ /\ \A r \in leads : \E q \in leads' : q.id = r.id /\ q.email = r.email
        /\ \A q \in leads' :
             RowsOf(leads, q.id) = {} =>
               /\ \E task \in Suspended : q = LeadOfTask(task)
               /\ \E form \in Forms :
                    /\ q.email = Lower(form.email)
                    /\ q.first_name = form.first_name
               /\ q.id = DerivedId(q.email)
        /\ \A lead_id \in LeadIds :
             ( get_lead(lead_id) /\ RowsOf(leads, lead_id) /= {} )
             => /\ last'.status = 200
                /\ last'.body.kind = "lead"
                /\ last'.body.lead.id = lead_id
                /\ \E r \in leads : last'.body.lead = LeadOut(r)
      ]_vars

\* the lead has been through update_resume (only it stores "cv2.pdf")
\* and update_lead_state (only it stores REACHED_OUT) and is read back
C9_Witness ==
    \E r \in leads :
      /\ r.id = DerivedId(EmailUpperA)
      /\ r.email = EmailLowerA
      /\ r.state = REACHED_OUT
      /\ r.resume_filename = <<"c","v","2",".","p","d","f">>
      /\ last = Ok(LeadBody(r))

====
